---- MODULE Spec2Model ----
(***************************************************************************)
(* The scheduling engine of the weekly organizer (WeeklyOrganizer):         *)
(* the activity store, the category registry, the time model, the conflict  *)
(* detector, the three mutating operations add_activity, edit_activity and  *)
(* remove_activity, each followed by its write-through save, the queries    *)
(* get_activities_by_day, get_all_activities, calculate_weekly_stats and   *)
(* generate_time_slots,                                                     *)
(* and the data file: save_data, load_data and the construction of the      *)
(* engine over it.                                                          *)
(*                                                                          *)
(* Representation.                                                          *)
(*  - A String that the code parses or trims (start_time, title) is a       *)
(*    sequence of one-character strings; all other Strings are TLA+ strings.*)
(*  - Option<T> is None or Some(v).                                         *)
(*  - A duration (f32, hours) is held exactly, as the integer number of     *)
(*    tenths of a minute: 1.0 h = 600, 0.995 h (59.7 min) = 597. The f32    *)
(*    value NaN is the number NaN, apart from every duration in use.        *)
(*  - Uuid::new_v4() is the next value of a counter (a fresh id);           *)
(*    Local::now() is the reading of the same logical clock.                *)
(***************************************************************************)
EXTENDS Integers, Sequences, FiniteSets, TLC

\* The number of ids add_activity may issue in one run.
MaxIds == 2

VARIABLES
    activities,   \* WeeklyOrganizer.activities: Vec<Activity>
    categories,   \* WeeklyOrganizer.categories: HashMap<String, Category>
    disk,         \* the content of data_file
    nextId,       \* the next id Uuid::new_v4() yields
    call,         \* the last operation called, with its arguments
    result,       \* what that operation returned
    prev,         \* the activities as they were when it was called
    saveResult    \* what save_data returned in that operation, if called

vars ==
    <<activities, categories, disk, nextId, call, result, prev, saveResult>>

----------------------------------------------------------------------------
\* Option<T>

None == [some |-> FALSE]

Some(v) == [some |-> TRUE, val |-> v]

\* opt.unwrap_or(dflt): `if let Some(x) = opt { field = x }` applied to dflt.
OrElse(opt, dflt) == IF opt.some THEN opt.val ELSE dflt

----------------------------------------------------------------------------
\* Time model

Digits == {"0", "1", "2", "3", "4", "5", "6", "7", "8", "9"}

DigitVal(c) ==
    CASE c = "0" -> 0 [] c = "1" -> 1 [] c = "2" -> 2 [] c = "3" -> 3
      [] c = "4" -> 4 [] c = "5" -> 5 [] c = "6" -> 6 [] c = "7" -> 7
      [] c = "8" -> 8 [] c = "9" -> 9

Whitespace == {" "}

RECURSIVE TrimStart(_)
TrimStart(s) ==
    IF s # <<>> /\ Head(s) \in Whitespace THEN TrimStart(Tail(s)) ELSE s

\* chrono's scan of a numeric item (%H, %M): leading whitespace is skipped,
\* then one or two digits are read.
ScanNumber(s) ==
    LET t == TrimStart(s) IN
    IF t = <<>> \/ Head(t) \notin Digits
    THEN [ok |-> FALSE, val |-> 0, rest |-> t]
    ELSE IF Len(t) >= 2 /\ t[2] \in Digits
         THEN [ok |-> TRUE, val |-> 10 * DigitVal(t[1]) + DigitVal(t[2]),
               rest |-> SubSeq(t, 3, Len(t))]
         ELSE [ok |-> TRUE, val |-> DigitVal(t[1]), rest |-> Tail(t)]

\* NaiveTime::parse_from_str(time, "%H:%M"): Some(<<hour, minute>>) or None.
ParseTime(time) ==
    LET h == ScanNumber(time) IN
    IF ~h.ok \/ h.rest = <<>> \/ Head(h.rest) # ":" THEN None
    ELSE LET m == ScanNumber(Tail(h.rest)) IN
         IF ~m.ok \/ m.rest # <<>> \/ h.val > 23 \/ m.val > 59 THEN None
         ELSE Some(<<h.val, m.val>>)

Str5(a, b, c, d, e) == <<a, b, c, d, e>>

T0900 == Str5("0", "9", ":", "0", "0")

T0959 == Str5("0", "9", ":", "5", "9")

T1000 == Str5("1", "0", ":", "0", "0")

T2400 == Str5("2", "4", ":", "0", "0")

\* "9:30": the hour without its leading zero.
T930 == <<"9", ":", "3", "0">>

\* " 9:00": a space where the leading zero would be.
TSp900 == Str5(" ", "9", ":", "0", "0")

T0960 == Str5("0", "9", ":", "6", "0")

\* "09:00 ": a space after the minute.
T0900Sp == <<"0", "9", ":", "0", "0", " ">>

T0000 == Str5("0", "0", ":", "0", "0")

T2300 == Str5("2", "3", ":", "0", "0")

T2330 == Str5("2", "3", ":", "3", "0")

\* The start-time strings the calls use.
TimeStrings ==
    {T0900, T0959, T1000, T2400, T930, TSp900, T0960, T0900Sp, T0000, T2300,
     T2330}

\* ParseTime over the strings in use, computed once.
Parsed == [time \in TimeStrings |-> ParseTime(time)]

\* validate_time(time).is_ok()
ValidateTime(time) == Parsed[time].some

\* start.hour() as i32 * 60 + start.minute() as i32
StartMinutes(time) == Parsed[time].val[1] * 60 + Parsed[time].val[2]

\* f32::NAN: every comparison with it is false, arithmetic on it gives NaN,
\* and the cast `as i32` gives 0.
NaN == -1

\* (duration * 60.0) as i32: the cast drops the fraction, toward zero.
DurationMinutes(duration) ==
    IF duration = NaN THEN 0
    ELSE IF duration >= 0 THEN duration \div 10 ELSE -((-duration) \div 10)

\* An end taken as a time of day: it wraps at midnight.
EndMinutesWrapped(time, duration) ==
    (StartMinutes(time) + DurationMinutes(duration)) % (24 * 60)

\* end_minutes / activity_end_minutes
EndMinutes(time, duration) == StartMinutes(time) + DurationMinutes(duration)

----------------------------------------------------------------------------
\* Validation

ValidDays ==
    <<"Segunda", "Terça", "Quarta", "Quinta", "Sexta", "Sábado", "Domingo">>

\* validate_day(day).is_ok()
ValidateDay(day) == \E i \in 1..Len(ValidDays) : ValidDays[i] = day

\* init_default_categories
DefaultCategories ==
    [k \in {"trabalho", "pessoal", "saude", "estudo", "lazer", "reuniao",
            "exercicio"} |->
        CASE k = "trabalho"  -> [name |-> "Trabalho",  color |-> "#3B82F6"]
          [] k = "pessoal"   -> [name |-> "Pessoal",   color |-> "#10B981"]
          [] k = "saude"     -> [name |-> "Saúde",     color |-> "#F59E0B"]
          [] k = "estudo"    -> [name |-> "Estudo",    color |-> "#8B5CF6"]
          [] k = "lazer"     -> [name |-> "Lazer",     color |-> "#EF4444"]
          [] k = "reuniao"   -> [name |-> "Reunião",   color |-> "#F97316"]
          [] k = "exercicio" -> [name |-> "Exercício", color |-> "#06B6D4"]]

\* duration <= 0.0 || duration > 8.0
DurationOutOfRange(duration) ==
    duration # NaN /\ (duration <= 0 \/ duration > 8 * 600)

\* title.trim().is_empty()
TitleIsBlank(title) == \A i \in 1..Len(title) : title[i] \in Whitespace

----------------------------------------------------------------------------
\* Conflict detector

\* Overlaps with the stored activity's end point included: a candidate that
\* starts where a stored activity ends conflicts, one that ends where it
\* starts does not.
OverlapsEndClosed(activity, day, start_time, duration) ==
    /\ activity.day = day
    /\ StartMinutes(start_time)
          <= EndMinutes(activity.start_time, activity.duration)
    /\ EndMinutes(start_time, duration) > StartMinutes(activity.start_time)

\* Overlaps with the end points included: touching intervals conflict.
OverlapsClosed(activity, day, start_time, duration) ==
    /\ activity.day = day
    /\ StartMinutes(start_time)
          <= EndMinutes(activity.start_time, activity.duration)
    /\ EndMinutes(start_time, duration) >= StartMinutes(activity.start_time)

\* The overlap test of check_time_conflict for one stored activity.
Overlaps(activity, day, start_time, duration) ==
    /\ activity.day = day
    /\ StartMinutes(start_time)
          < EndMinutes(activity.start_time, activity.duration)
    /\ EndMinutes(start_time, duration) > StartMinutes(activity.start_time)

\* check_time_conflict over the store acts: the first overlapping activity in
\* store order, or None.
CheckTimeConflict(acts, day, start_time, duration) ==
    LET hits == {i \in 1..Len(acts) :
                    Overlaps(acts[i], day, start_time, duration)} IN
    IF hits = {} THEN None
    ELSE Some(acts[CHOOSE i \in hits : \A j \in hits : i <= j])

----------------------------------------------------------------------------
\* Persistence

NoFile == [exists |-> FALSE]

\* serde_json's text of an f32: a number, or null for NaN. Strings, options,
\* the timestamp and the category map are written as they are read back.
JsonNumber(x) ==
    IF x = NaN THEN [null |-> TRUE] ELSE [null |-> FALSE, num |-> x]

\* serde_json::to_string_pretty of one Activity.
ToJson(activity) == [activity EXCEPT !.duration = JsonNumber(@)]

\* The document save_data builds: syntactically valid JSON of
\* {activities, categories}.
Document(acts, cats) ==
    [exists |-> TRUE, syntaxOk |-> TRUE,
     activities |-> [i \in 1..Len(acts) |-> ToJson(acts[i])],
     categories |-> cats]

\* save_data called before the store is changed.
SaveDataStale(acts, cats, saveOk) ==
    IF saveOk THEN Document(activities, cats) ELSE disk

\* save_data: the document written to data_file. An I/O failure leaves the
\* file as it was (whole-file write).
SaveData(acts, cats, saveOk) == IF saveOk THEN Document(acts, cats) ELSE disk

\* serde_json::from_str of one Activity whose duration is a number.
FromJson(json) == [json EXCEPT !.duration = @.num]

\* load_data with every assignment made before the document is known to be
\* whole: what can be read of it is taken.
LoadDataPartial(file, acts, cats) ==
    IF ~file.exists THEN [ok |-> FALSE, activities |-> acts, categories |-> cats]
    ELSE LET n == Len(file.activities)
             good == {i \in 0..n :
                         \A j \in 1..i : ~file.activities[j].duration.null}
             m == CHOOSE i \in good : \A j \in good : j <= i
         IN  [ok |-> file.syntaxOk /\ m = n,
              activities |-> [i \in 1..m |-> FromJson(file.activities[i])],
              categories |-> file.categories @@ cats]

\* load_data on an engine holding acts and cats: the file is read, then
\* parsed, and only then are the activities replaced and the registry
\* extended (a loaded key replaces an equal key). Either `?` returns before
\* any assignment.
LoadData(file, acts, cats) ==
    IF ~file.exists
    THEN [ok |-> FALSE, activities |-> acts, categories |-> cats]
    ELSE IF \/ ~file.syntaxOk
            \/ \E i \in 1..Len(file.activities) : file.activities[i].duration.null
    THEN [ok |-> FALSE, activities |-> acts, categories |-> cats]
    ELSE [ok |-> TRUE,
          activities |->
              [i \in 1..Len(file.activities) |-> FromJson(file.activities[i])],
          categories |-> file.categories @@ cats]

----------------------------------------------------------------------------
\* Results and calls

Ok(v) == [kind |-> "Ok", val |-> v]

Err(kind, v) == [kind |-> kind, val |-> v]

NoCall == [op |-> "none"]

\* The Result of save_data at a call site: Ok(()) or Err(e), reported by
\* "Aviso: Erro ao salvar dados".
SaveResult(saveOk) == IF saveOk THEN "Ok" ELSE "Err"

\* An id generator that hands out the id of the first stored activity again.
ReusedId == IF activities = <<>> THEN nextId ELSE activities[1].id

\* Uuid::new_v4()
NewId == nextId

\* Local::now()
Now == nextId

Init ==
    /\ activities = <<>>
    /\ categories = DefaultCategories
    /\ disk = NoFile
    /\ nextId = 1
    /\ call = NoCall
    /\ result = Ok(0)
    /\ prev = <<>>
    /\ saveResult = "NotCalled"

\* WeeklyOrganizer::new over a data file: no activities, the default
\* categories, then load_data, whose error is only reported.
New(file) == LoadData(file, <<>>, DefaultCategories)

\* The program is started again: a new engine is constructed over data_file.
Restart ==
    LET organizer == New(disk) IN
    /\ call' = [op |-> "new"]
    /\ prev' = activities
    /\ activities' = organizer.activities
    /\ categories' = organizer.categories
    /\ result' = IF organizer.ok THEN Ok(0) ELSE Err("LoadFailed", 0)
    /\ saveResult' = "NotCalled"
    /\ UNCHANGED <<disk, nextId>>

----------------------------------------------------------------------------
\* add_activity

\* The checks of add_activity with the title checked before the duration.
AddValidationTitleFirst(title, category, day, start_time, duration) ==
    IF ~ValidateDay(day) THEN Err("InvalidDay", 0)
    ELSE IF ~ValidateTime(start_time) THEN Err("InvalidTime", 0)
    ELSE IF category \notin DOMAIN categories THEN Err("UnknownCategory", 0)
    ELSE IF TitleIsBlank(title) THEN Err("EmptyTitle", 0)
    ELSE IF DurationOutOfRange(duration) THEN Err("InvalidDuration", 0)
    ELSE LET c == CheckTimeConflict(activities, day, start_time, duration) IN
         IF c.some THEN Err("TimeConflict", c.val.id)
         ELSE Ok(NewId)

\* The checks of add_activity in order, on an engine whose store is acts:
\* the error it returns, or "Ok".
AddValidationOn(acts, title, category, day, start_time, duration) ==
    IF ~ValidateDay(day) THEN Err("InvalidDay", 0)
    ELSE IF ~ValidateTime(start_time) THEN Err("InvalidTime", 0)
    ELSE IF category \notin DOMAIN categories THEN Err("UnknownCategory", 0)
    ELSE IF DurationOutOfRange(duration) THEN Err("InvalidDuration", 0)
    ELSE IF TitleIsBlank(title) THEN Err("EmptyTitle", 0)
    ELSE LET c == CheckTimeConflict(acts, day, start_time, duration) IN
         IF c.some THEN Err("TimeConflict", c.val.id)
         ELSE Ok(NewId)

\* The checks of add_activity on self.activities.
AddValidation(title, category, day, start_time, duration) ==
    AddValidationOn(activities, title, category, day, start_time, duration)

\* The Activity add_activity builds.
NewActivity(title, category, day, start_time, duration, location, description) ==
    [id |-> NewId, title |-> title, category |-> category,
     duration |-> duration, start_time |-> start_time, location |-> location,
     description |-> description, day |-> day, created_at |-> Now]

AddActivity(title, category, day, start_time, duration, location, description, saveOk) ==
    LET r == AddValidation(title, category, day, start_time, duration) IN
    /\ r.kind = "Ok" => nextId <= MaxIds
    /\ call' = [op |-> "add", id |-> 0, title |-> Some(title),
                category |-> Some(category), day |-> Some(day),
                start_time |-> Some(start_time), duration |-> Some(duration),
                location |-> location, description |-> description]
    /\ result' = r
    /\ prev' = activities
    /\ IF r.kind = "Ok"
       THEN /\ activities' = Append(activities,
                   NewActivity(title, category, day, start_time, duration,
                               location, description))
            /\ nextId' = nextId + 1
            /\ disk' = SaveData(activities', categories, saveOk)
            /\ saveResult' = SaveResult(saveOk)
       ELSE /\ UNCHANGED <<activities, nextId, disk>>
            /\ saveResult' = "NotCalled"
    /\ UNCHANGED categories

----------------------------------------------------------------------------
\* edit_activity

\* find(..) falling back to the first activity when no id matches.
FindIndexOrFirst(id) ==
    LET hits == {i \in 1..Len(activities) : activities[i].id = id} IN
    IF hits = {} THEN (IF activities = <<>> THEN 0 ELSE 1)
    ELSE CHOOSE i \in hits : \A j \in hits : i <= j

\* self.activities.iter_mut().find(|a| a.id == id): its index, 0 when absent.
FindIndex(id) ==
    LET hits == {i \in 1..Len(activities) : activities[i].id = id} IN
    IF hits = {} THEN 0 ELSE CHOOSE i \in hits : \A j \in hits : i <= j

\* temp_activity: the clone with the supplied title, category, day,
\* start_time and duration applied.
TempActivity(activity, title, category, day, start_time, duration) ==
    [activity EXCEPT !.title = OrElse(title, @),
                     !.category = OrElse(category, @),
                     !.day = OrElse(day, @),
                     !.start_time = OrElse(start_time, @),
                     !.duration = OrElse(duration, @)]

\* The conflict check of an edit run against the whole store.
ActivitiesWithCurrent(original_id) == activities

\* activities_without_current
ActivitiesWithout(original_id) ==
    SelectSeq(activities, LAMBDA a : a.id # original_id)

\* The checks of edit_activity without the one of the category.
EditValidationNoCategory(id, title, category, day, start_time, duration) ==
    IF FindIndex(id) = 0 THEN Err("NotFound", 0)
    ELSE LET activity == activities[FindIndex(id)]
             temp == TempActivity(activity, title, category, day, start_time,
                                  duration)
         IN
         IF ~ValidateDay(temp.day) THEN Err("InvalidDay", 0)
         ELSE IF ~ValidateTime(temp.start_time) THEN Err("InvalidTime", 0)
         ELSE LET c == CheckTimeConflict(ActivitiesWithout(activity.id),
                           temp.day, temp.start_time, temp.duration) IN
              IF c.some THEN Err("TimeConflict", c.val.id)
              ELSE Ok(0)

\* The checks of edit_activity in order: the error it returns, or "Ok".
EditValidation(id, title, category, day, start_time, duration) ==
    IF FindIndex(id) = 0 THEN Err("NotFound", 0)
    ELSE LET activity == activities[FindIndex(id)]
             temp == TempActivity(activity, title, category, day, start_time,
                                  duration)
         IN
         IF ~ValidateDay(temp.day) THEN Err("InvalidDay", 0)
         ELSE IF ~ValidateTime(temp.start_time) THEN Err("InvalidTime", 0)
         ELSE IF temp.category \notin DOMAIN categories
              THEN Err("UnknownCategory", 0)
         ELSE LET c == CheckTimeConflict(ActivitiesWithout(activity.id),
                           temp.day, temp.start_time, temp.duration) IN
              IF c.some THEN Err("TimeConflict", c.val.id)
              ELSE Ok(0)

\* The edit with location and description overwritten even when absent.
ApplyEditClearing(activity, title, category, day, start_time, duration, location, description) ==
    [activity EXCEPT !.title = OrElse(title, @),
                     !.category = OrElse(category, @),
                     !.day = OrElse(day, @),
                     !.start_time = OrElse(start_time, @),
                     !.duration = OrElse(duration, @),
                     !.location = location,
                     !.description = description]

\* "Aplicar mudanças": the supplied fields written to the stored activity.
ApplyEdit(activity, title, category, day, start_time, duration, location, description) ==
    [activity EXCEPT !.title = OrElse(title, @),
                     !.category = OrElse(category, @),
                     !.day = OrElse(day, @),
                     !.start_time = OrElse(start_time, @),
                     !.duration = OrElse(duration, @),
                     !.location = IF location.some THEN location ELSE @,
                     !.description =
                         IF description.some THEN description ELSE @]

\* location and description written before the checks, the rest after them.
StoreAfterEditEager(r, id, title, category, day, start_time, duration, location, description) ==
    IF FindIndex(id) = 0 THEN activities
    ELSE IF r.kind = "Ok"
         THEN [activities EXCEPT ![FindIndex(id)] =
                  ApplyEdit(@, title, category, day, start_time, duration,
                            location, description)]
         ELSE [activities EXCEPT ![FindIndex(id)] =
                  ApplyEdit(@, None, None, None, None, None, location,
                            description)]

\* The store edit_activity leaves: the changes are applied only once every
\* check has passed.
StoreAfterEdit(r, id, title, category, day, start_time, duration, location, description) ==
    IF r.kind = "Ok"
    THEN [activities EXCEPT ![FindIndex(id)] =
             ApplyEdit(@, title, category, day, start_time, duration,
                       location, description)]
    ELSE activities

EditActivity(id, title, category, day, start_time, duration, location, description, saveOk) ==
    LET r == EditValidation(id, title, category, day, start_time, duration) IN
    /\ call' = [op |-> "edit", id |-> id, title |-> title,
                category |-> category, day |-> day,
                start_time |-> start_time, duration |-> duration,
                location |-> location, description |-> description]
    /\ result' = r
    /\ prev' = activities
    /\ activities' = StoreAfterEdit(r, id, title, category, day, start_time,
                                    duration, location, description)
    /\ disk' = IF r.kind = "Ok"
               THEN SaveData(activities', categories, saveOk)
               ELSE disk
    /\ saveResult' = IF r.kind = "Ok" THEN SaveResult(saveOk) ELSE "NotCalled"
    /\ UNCHANGED <<categories, nextId>>

----------------------------------------------------------------------------
\* remove_activity

\* self.activities.retain(|a| a.id != id)
\* The store cut off at the activity named: it and all after it are dropped.
RetainBefore(id) ==
    IF FindIndex(id) = 0 THEN activities
    ELSE SubSeq(activities, 1, FindIndex(id) - 1)

Retain(id) == SelectSeq(activities, LAMBDA a : a.id # id)

\* remove_activity undoing the removal when the save fails.
RemoveActivityRollback(id, saveOk) ==
    /\ call' = [op |-> "remove", id |-> id, title |-> None,
                category |-> None, day |-> None, start_time |-> None,
                duration |-> None, location |-> None, description |-> None]
    /\ prev' = activities
    /\ activities' = IF saveOk THEN Retain(id) ELSE activities
    /\ IF Len(Retain(id)) = Len(activities)
       THEN /\ result' = Err("NotFound", 0)
            /\ UNCHANGED disk
            /\ saveResult' = "NotCalled"
       ELSE /\ result' = IF saveOk THEN Ok(0) ELSE Err("SaveFailed", 0)
            /\ disk' = SaveData(Retain(id), categories, saveOk)
            /\ saveResult' = SaveResult(saveOk)
    /\ UNCHANGED <<categories, nextId>>

RemoveActivity(id, saveOk) ==
    /\ call' = [op |-> "remove", id |-> id, title |-> None,
                category |-> None, day |-> None, start_time |-> None,
                duration |-> None, location |-> None, description |-> None]
    /\ prev' = activities
    /\ activities' = Retain(id)
    /\ IF Len(activities') = Len(activities)
       THEN /\ result' = Err("NotFound", 0)
            /\ UNCHANGED disk
            /\ saveResult' = "NotCalled"
       ELSE /\ result' = Ok(0)
            /\ disk' = SaveData(activities', categories, saveOk)
            /\ saveResult' = SaveResult(saveOk)
    /\ UNCHANGED <<categories, nextId>>

----------------------------------------------------------------------------
\* Queries

\* The byte of a character (u8): String::cmp compares the UTF-8 bytes.
CharOrd(c) ==
    CASE c = " " -> 32
      [] c \in Digits -> 48 + DigitVal(c)
      [] c = ":" -> 58

\* a.cmp(&b) on Strings: lexicographic on the bytes, a proper prefix first;
\* -1 for Less, 0 for Equal, 1 for Greater.
RECURSIVE StrCmp(_, _)
StrCmp(a, b) ==
    IF a = <<>> /\ b = <<>> THEN 0
    ELSE IF a = <<>> THEN -1
    ELSE IF b = <<>> THEN 1
    ELSE IF CharOrd(Head(a)) < CharOrd(Head(b)) THEN -1
    ELSE IF CharOrd(Head(a)) > CharOrd(Head(b)) THEN 1
    ELSE StrCmp(Tail(a), Tail(b))

\* a.start_time.cmp(&b.start_time)
CmpStartTime(a, b) == StrCmp(a.start_time, b.start_time)

\* day_order.iter().position(|&d| d == day).unwrap_or(7), positions from 0.
DayIndex(day) ==
    IF ValidateDay(day)
    THEN (CHOOSE i \in 1..Len(ValidDays) : ValidDays[i] = day) - 1
    ELSE 7

\* a_day_idx.cmp(&b_day_idx).then_with(|| a.start_time.cmp(&b.start_time))
CmpDayThenStartTime(a, b) ==
    IF DayIndex(a.day) < DayIndex(b.day) THEN -1
    ELSE IF DayIndex(a.day) > DayIndex(b.day) THEN 1
    ELSE CmpStartTime(a, b)

\* Vec::sort_by: a stable sort; elements that compare Equal keep their
\* order. cmp[j, i] is the closure's result on v[j] and v[i]. The element at
\* place k is the one with k - 1 elements before it.
SortBy(v, cmp) ==
    LET n == Len(v)
        before(i) ==
            {j \in 1..n : cmp[j, i] < 0 \/ (cmp[j, i] = 0 /\ j < i)}
    IN  [k \in 1..n |->
            v[CHOOSE i \in 1..n : Cardinality(before(i)) = k - 1]]

\* The filter of get_activities_by_day.
OnDay(acts, day) == LET IsOnDay(a) == a.day = day IN SelectSeq(acts, IsOnDay)

\* get_activities_by_day(day)
GetActivitiesByDay(day) ==
    LET v == OnDay(activities, day) IN
    SortBy(v, [j, i \in 1..Len(v) |-> CmpStartTime(v[j], v[i])])

\* get_all_activities()
GetAllActivities ==
    SortBy(activities,
           [j, i \in 1..Len(activities) |->
               CmpDayThenStartTime(activities[j], activities[i])])

\* HashMap::new()
EmptyMap == [k \in {} |-> 0]

\* x + y on f32 values held exactly.
FAdd(x, y) == IF x = NaN \/ y = NaN THEN NaN ELSE x + y

\* map.insert(key, x): the entry is replaced, nothing is accumulated.
Inserted(map, key, x) ==
    [k \in DOMAIN map \cup {key} |-> IF k = key THEN x ELSE map[k]]

\* *map.entry(key).or_insert(0.0) += x
Accumulated(map, key, x) ==
    [k \in DOMAIN map \cup {key} |->
        IF k # key THEN map[k]
        ELSE FAdd(IF key \in DOMAIN map THEN map[key] ELSE 0, x)]

\* The loop of calculate_weekly_stats over the activities left to visit.
RECURSIVE StatsLoop(_, _)
StatsLoop(stats, acts) ==
    IF acts = <<>> THEN stats
    ELSE LET activity == Head(acts) IN
         StatsLoop(
             [stats EXCEPT
                 !.total_time = FAdd(@, activity.duration),
                 !.by_category = Accumulated(@, activity.category,
                                             activity.duration),
                 !.by_day = Accumulated(@, activity.day, activity.duration)],
             Tail(acts))

\* calculate_weekly_stats()
CalculateWeeklyStats ==
    StatsLoop([total_time |-> 0, by_category |-> EmptyMap,
               by_day |-> EmptyMap, activity_count |-> Len(activities)],
              activities)

\* A query is made: the store is read and left as it is.
Query(op, value) ==
    /\ call' = op
    /\ result' = Ok(value)
    /\ prev' = activities
    /\ saveResult' = "NotCalled"
    /\ UNCHANGED <<activities, categories, disk, nextId>>

ViewDay(day) ==
    Query([op |-> "by_day", day |-> day], GetActivitiesByDay(day))

ListActivities == Query([op |-> "all"], GetAllActivities)

DisplayStats == Query([op |-> "stats"], CalculateWeeklyStats)

\* format!("{:02}", n) for n below 100: two decimal digits.
Format02(n) ==
    LET DigitChar(x) == CHOOSE c \in Digits : DigitVal(c) = x IN
    <<DigitChar(n \div 10), DigitChar(n % 10)>>

\* The range ending with its upper bound: hour in 6..=23.
HourPastInclusive(hour, end) == hour > end

\* `for hour in 6..23` is over: the upper bound is not visited.
HourPast(hour, end) == hour >= end

\* The loop of generate_time_slots from hour on: "HH:00" then "HH:30".
RECURSIVE SlotsFrom(_, _)
SlotsFrom(hour, end) ==
    IF HourPast(hour, end) THEN <<>>
    ELSE <<Format02(hour) \o <<":", "0", "0">>,
           Format02(hour) \o <<":", "3", "0">>>> \o SlotsFrom(hour + 1, end)

\* generate_time_slots()
GenerateTimeSlots == SlotsFrom(6, 23)

\* display_weekly_grid: the slots are generated anew for each display.
DisplayWeeklyGrid == Query([op |-> "slots"], GenerateTimeSlots)

----------------------------------------------------------------------------
\* The calls made

TitleA == <<"A">>

TitleB == <<"B">>

TitleBlank == <<" ">>

\* The argument of an edit for field n: Some(f[n]) when f supplies n.
Arg(f, n) == IF n \in DOMAIN f THEN Some(f[n]) ELSE None

NoFields == [n \in {} |-> 0]

AddReq(title, category, day, start_time, duration, location, description) ==
    [title |-> title, category |-> category, day |-> day,
     start_time |-> start_time, duration |-> duration,
     location |-> location, description |-> description]

EditReq(id, f) ==
    [id |-> id, title |-> Arg(f, "title"), category |-> Arg(f, "category"),
     day |-> Arg(f, "day"), start_time |-> Arg(f, "start_time"),
     duration |-> Arg(f, "duration"),
     location |-> IF "location" \in DOMAIN f THEN Some(f["location"]) ELSE None,
     description |->
         IF "description" \in DOMAIN f THEN Some(f["description"]) ELSE None]

Ids == 1..MaxIds

\* Scheduling calls: what varies is the day, the start time and the duration.
SchedAdds ==
    {AddReq(TitleA, "trabalho", d, t, dur, None, None) :
        d \in {"Segunda", "Terça"}, t \in {T0900, T0959, T1000},
        dur \in {597, 600}}

SchedEditFields ==
    {NoFields}
      \cup {("day" :> d) : d \in {"Segunda", "Terça", "Monday"}}
      \cup {("start_time" :> t) : t \in {T0900, T0959, T1000, T2400}}
      \cup {("duration" :> dur) : dur \in {597, 600}}
      \cup {("category" :> "hobby")}
      \cup {("day" :> "Segunda") @@ ("start_time" :> t) @@ ("duration" :> 600) :
                t \in {T0900, T1000}}

SchedEdits ==
    {EditReq(id, f) : id \in Ids, f \in SchedEditFields}

\* Validation calls: every combination of a good and a bad value of the five
\* checked arguments, an eight-hour activity, and edits to a bad duration, a
\* blank title or an unknown category.
ValidateAdds ==
    {AddReq(title, c, d, t, dur, None, None) :
        title \in {TitleA, TitleBlank}, c \in {"trabalho", "hobby"},
        d \in {"Segunda", "Monday"}, t \in {T0900, T2400}, dur \in {600, 0}}
      \cup {AddReq(TitleA, "trabalho", "Segunda", T1000, dur, None, None) :
                dur \in {8 * 600, 8 * 600 + 1}}

ValidateEditFields ==
    {("duration" :> dur) : dur \in {0, 8 * 600 + 1}}
      \cup {("title" :> TitleBlank), ("start_time" :> T0900),
            ("category" :> "hobby")}

ValidateEdits == {EditReq(id, f) : id \in Ids, f \in ValidateEditFields}

\* Field calls: what varies is the title, the location and the description,
\* alone and together with a start time, a day or a category that fails.
FieldAdds ==
    {AddReq(TitleA, "trabalho", "Segunda", t, 600, loc, None) :
        t \in {T0900, T1000}, loc \in {None, Some("Sala")}}

FieldEditFields ==
    {NoFields, ("title" :> TitleB), ("location" :> "Casa"),
     ("description" :> "Notas"), ("start_time" :> T0900),
     ("start_time" :> T1000), ("day" :> "Monday"), ("category" :> "hobby"),
     ("location" :> "Casa") @@ ("start_time" :> T0900),
     ("location" :> "Casa") @@ ("start_time" :> T1000),
     ("description" :> "Notas") @@ ("day" :> "Monday"),
     ("title" :> TitleB) @@ ("category" :> "hobby")}

FieldEdits == {EditReq(id, f) : id \in Ids, f \in FieldEditFields}

\* Start-time calls: what varies is the shape of the start-time string.
TimeAdds ==
    {AddReq(TitleA, "trabalho", d, t, 300, None, None) :
        d \in {"Segunda", "Terça"},
        t \in {T1000, T930, TSp900, T2400, T0960, T0900Sp}}

TimeEditFields ==
    {("start_time" :> t) : t \in {T930, T0960}} \cup {("day" :> "Terça")}

TimeEdits == {EditReq(id, f) : id \in Ids, f \in TimeEditFields}

\* The largest number of activities in a data file read at the start.
MaxStored == 2

\* Data files as an earlier run, or an editor, may have left them: every
\* list of up to MaxStored activities on two categories and three days, one
\* of them outside the seven.
StoredShapes ==
    {[category |-> c, day |-> d, start_time |-> t[1], duration |-> t[2]] :
        c \in {"trabalho", "lazer"}, d \in {"Segunda", "Terça", "Feriado"},
        t \in {<<T0900, 300>>, <<T1000, 597>>}}

StoredActivity(shape, id) ==
    [id |-> id, title |-> TitleA, category |-> shape.category,
     day |-> shape.day, start_time |-> shape.start_time,
     duration |-> shape.duration, location |-> None, description |-> None,
     created_at |-> id]

StoredFiles ==
    {Document([i \in 1..Len(shapes) |-> StoredActivity(shapes[i], i)],
              DefaultCategories) :
        shapes \in UNION {[1..n -> StoredShapes] : n \in 0..MaxStored}}

\* A data file cut short: not valid JSON, though its first activity and a
\* category can still be made out.
TruncatedFile ==
    [exists |-> TRUE, syntaxOk |-> FALSE,
     activities |->
         <<ToJson(StoredActivity(CHOOSE shape \in StoredShapes : TRUE, 1))>>,
     categories |-> ("musica" :> [name |-> "Música", color |-> "#EC4899"])]

\* Persistence calls: adds of a one-hour and of a NaN-hour activity, a
\* title edit, and adds and an edit that fail (on the day, and on a blank
\* title given with a duration of NaN); every save may fail.
PersistAdds ==
    {AddReq(TitleA, "trabalho", "Segunda", T0900, 600, None, None),
     AddReq(TitleA, "trabalho", "Segunda", T1000, NaN, None, None),
     AddReq(TitleA, "trabalho", "Monday", T0900, 600, None, None),
     AddReq(TitleBlank, "trabalho", "Segunda", T1000, NaN, None, None)}

PersistEditFields == {("title" :> TitleB), ("day" :> "Monday")}

PersistEdits == {EditReq(id, f) : id \in Ids, f \in PersistEditFields}

\* Midnight calls: one- and two-hour activities at 00:00, 23:00 and 23:30
\* on two consecutive days, and edits that move one across midnight.
MidnightAdds ==
    {AddReq(TitleA, "trabalho", d, t, dur, None, None) :
        d \in {"Segunda", "Terça"}, t \in {T0000, T2300, T2330},
        dur \in {600, 2 * 600}}

MidnightEditFields ==
    {("start_time" :> T2330), ("day" :> "Terça"), ("duration" :> 2 * 600)}

MidnightEdits == {EditReq(id, f) : id \in Ids, f \in MidnightEditFields}

SaveOutcomes == {TRUE}

Add(reqs) ==
    \E r \in reqs, saveOk \in SaveOutcomes :
        AddActivity(r.title, r.category, r.day, r.start_time, r.duration,
                    r.location, r.description, saveOk)

Edit(reqs) ==
    \E r \in reqs, saveOk \in SaveOutcomes :
        EditActivity(r.id, r.title, r.category, r.day, r.start_time,
                     r.duration, r.location, r.description, saveOk)

Remove(ids) ==
    \E id \in ids, saveOk \in SaveOutcomes : RemoveActivity(id, saveOk)

Next ==
    \/ Add(SchedAdds)
    \/ Edit(SchedEdits)
    \/ Remove(Ids)

Spec == Init /\ [][Next]_vars

NextValidate ==
    \/ Add(ValidateAdds)
    \/ Edit(ValidateEdits)
    \/ Remove(Ids)

SpecValidate == Init /\ [][NextValidate]_vars

NextFields ==
    \/ Add(FieldAdds)
    \/ Edit(FieldEdits)
    \/ Remove(Ids)

SpecFields == Init /\ [][NextFields]_vars

NextTimes ==
    \/ Add(TimeAdds)
    \/ Edit(TimeEdits)
    \/ Remove(Ids)

SpecTimes == Init /\ [][NextTimes]_vars

NextMidnight ==
    \/ Add(MidnightAdds)
    \/ Edit(MidnightEdits)
    \/ Remove(Ids)

SpecMidnight == Init /\ [][NextMidnight]_vars

\* The engine constructed over one of the stored files.
InitStored ==
    \E file \in StoredFiles :
        /\ disk = file
        /\ activities = New(file).activities
        /\ categories = New(file).categories
        /\ nextId = Len(activities) + 1
        /\ call = NoCall
        /\ result = Ok(0)
        /\ prev = <<>>
        /\ saveResult = "NotCalled"

NextQuery ==
    \/ \E day \in {"Segunda", "Terça", "Feriado"} : ViewDay(day)
    \/ ListActivities
    \/ DisplayStats
    \/ DisplayWeeklyGrid

SpecQuery == InitStored /\ [][NextQuery]_vars

\* The engine constructed where there is no data file, or a truncated one.
InitPersist ==
    \E file \in {NoFile, TruncatedFile} :
        /\ disk = file
        /\ activities = New(file).activities
        /\ categories = New(file).categories
        /\ nextId = 1
        /\ call = [op |-> "new"]
        /\ result = IF New(file).ok THEN Ok(0) ELSE Err("LoadFailed", 0)
        /\ prev = <<>>
        /\ saveResult = "NotCalled"

NextPersist ==
    \/ \E r \in PersistAdds, saveOk \in BOOLEAN :
          AddActivity(r.title, r.category, r.day, r.start_time, r.duration,
                      r.location, r.description, saveOk)
    \/ \E r \in PersistEdits, saveOk \in BOOLEAN :
          EditActivity(r.id, r.title, r.category, r.day, r.start_time,
                       r.duration, r.location, r.description, saveOk)
    \/ \E id \in Ids, saveOk \in BOOLEAN : RemoveActivity(id, saveOk)
    \/ Restart

SpecPersist == InitPersist /\ [][NextPersist]_vars

----------------------------------------------------------------------------
\* The occupied interval as specified: [start, start + round(duration * 60)),
\* the fraction of a minute rounded to the nearest minute, half up.

RoundMinutes(duration) == (duration + 5) \div 10

\* A duration in (0, 8] hours as specified; NaN is not one.
DurationInRange(duration) ==
    duration # NaN /\ duration > 0 /\ duration <= 8 * 600

OccupiedStart(start_time) == StartMinutes(start_time)

OccupiedEnd(start_time, duration) ==
    StartMinutes(start_time) + RoundMinutes(duration)

\* startA < endB /\ startB < endA
IntervalsOverlap(startA, durA, startB, durB) ==
    /\ OccupiedStart(startA) < OccupiedEnd(startB, durB)
    /\ OccupiedStart(startB) < OccupiedEnd(startA, durA)

ActivitiesOverlap(a, b) ==
    /\ a.day = b.day
    /\ IntervalsOverlap(a.start_time, a.duration, b.start_time, b.duration)

\* The last call was op and returned kind.
Returned(op, kind) == call.op = op /\ result.kind = kind

\* The arguments of the last add pass every check before the conflict check.
AddArgsValid ==
    /\ call.op = "add"
    /\ ValidateDay(call.day.val)
    /\ ValidateTime(call.start_time.val)
    /\ call.category.val \in DOMAIN categories
    /\ DurationInRange(call.duration.val)
    /\ ~TitleIsBlank(call.title.val)

\* The activities stored at the call that overlap the candidate of the last
\* add, by the occupied intervals as specified.
AddOverlapped ==
    {i \in 1..Len(prev) :
        /\ prev[i].day = call.day.val
        /\ IntervalsOverlap(prev[i].start_time, prev[i].duration,
                            call.start_time.val, call.duration.val)}

----------------------------------------------------------------------------
\* C1: in every reachable state no two distinct stored activities of the same
\* day have overlapping occupied intervals [start, start + round(duration*60)).
C1_NoOverlap ==
    \A i, j \in 1..Len(activities) :
        i < j => ~ActivitiesOverlap(activities[i], activities[j])

\* C2: when an otherwise valid activity B is added while a stored activity A of
\* the same day overlaps it (A.start < B.end and B.start < A.end), the add
\* fails with TimeConflict and the store is unchanged.
C2_OverlapRejected ==
    (AddArgsValid /\ AddOverlapped # {})
        => (result.kind = "TimeConflict" /\ activities = prev)

\* C3: adding a valid B to a store holding only a valid A of the same day whose
\* occupied interval does not overlap B's (touching at an end point included)
\* succeeds, and the store then holds A followed by B.
C3_DisjointAccepted ==
    (/\ AddArgsValid
     /\ Len(prev) = 1
     /\ prev[1].day = call.day.val
     /\ AddOverlapped = {})
        => /\ result.kind = "Ok"
           /\ Len(activities) = 2
           /\ activities[1] = prev[1]
           /\ activities[2].day = call.day.val
           /\ activities[2].start_time = call.start_time.val
           /\ activities[2].duration = call.duration.val

\* C3 witness: B was added right where A ends (A ends at the minute B starts).
C3_Witness ==
    /\ Returned("add", "Ok")
    /\ Len(activities) = 2
    /\ Len(prev) = 1
    /\ activities[1].day = activities[2].day
    /\ OccupiedEnd(activities[1].start_time, activities[1].duration)
          = OccupiedStart(activities[2].start_time)

\* The activity the last edit or remove names, as stored at the call.
Target == {i \in 1..Len(prev) : prev[i].id = call.id}

\* A stored activity that add_activity would have accepted field by field.
ActivityValid(a) ==
    /\ ValidateDay(a.day)
    /\ ValidateTime(a.start_time)
    /\ a.category \in DOMAIN categories
    /\ DurationInRange(a.duration)
    /\ ~TitleIsBlank(a.title)

\* The fields of title .. duration the last call supplied.
Supplied ==
    {n \in {"title", "category", "day", "start_time", "duration"} :
        call[n].some}

\* The last call was an edit of a stored valid activity that supplied at least
\* one field and only values the activity already had.
SameValueEdit ==
    /\ call.op = "edit"
    /\ Supplied # {} \/ call.location.some \/ call.description.some
    /\ \E i \in Target :
        /\ ActivityValid(prev[i])
        /\ \A n \in Supplied : call[n].val = prev[i][n]
        /\ call.location.some => call.location = prev[i].location
        /\ call.description.some => call.description = prev[i].description

\* C6: an edit of a stored valid activity X that supplies one or more fields
\* with X's current values succeeds, and no edit fails with a TimeConflict
\* that names the edited activity itself.
C6_SameValueEditSucceeds ==
    /\ SameValueEdit => result.kind = "Ok"
    /\ call.op = "edit" => ~(result.kind = "TimeConflict" /\ result.val = call.id)

\* C6 witness: day, start time and duration were all supplied with the current
\* values, with another activity in the store, and the edit succeeded.
C6_Witness ==
    /\ SameValueEdit
    /\ Supplied = {"day", "start_time", "duration"}
    /\ Len(prev) = 2
    /\ result.kind = "Ok"

\* C7: remove_activity and edit_activity with an id no stored activity has
\* fail with NotFound and leave the store as it was.
C7_UnknownIdNotFound ==
    (call.op \in {"edit", "remove"} /\ Target = {})
        => (result.kind = "NotFound" /\ activities = prev)

\* C7 witness: an edit that supplied a field named an id that is not in a
\* non-empty store.
C7_Witness ==
    /\ Returned("edit", "NotFound")
    /\ Target = {}
    /\ Supplied # {}
    /\ Len(activities) >= 1

\* C7, the remove case reached as well.
C7_WitnessRemove ==
    Returned("remove", "NotFound") /\ Target = {} /\ Len(activities) >= 1

\* C10: a successful add appends exactly one activity, built from the call's
\* arguments, at the end of the store and leaves the others as they were; the
\* id it returns is the new activity's and differs from every id stored
\* before; all stored ids are pairwise distinct in every reachable state.
C10_AddAppendsFreshId ==
    /\ Returned("add", "Ok") =>
        /\ Len(activities) = Len(prev) + 1
        /\ SubSeq(activities, 1, Len(prev)) = prev
        /\ activities[Len(activities)].id = result.val
        /\ activities[Len(activities)].title = call.title.val
        /\ activities[Len(activities)].day = call.day.val
        /\ activities[Len(activities)].start_time = call.start_time.val
        /\ activities[Len(activities)].duration = call.duration.val
        /\ \A i \in 1..Len(prev) : prev[i].id # result.val
    /\ \A i, j \in 1..Len(activities) :
        i # j => activities[i].id # activities[j].id

\* C10 witness: an add succeeded on a store that already held an activity.
C10_Witness == Returned("add", "Ok") /\ Len(prev) >= 1 /\ Len(activities) = 2

\* C4: in every reachable state every stored activity has a duration in
\* (0, 8] hours and a title that is not empty after trimming; an edit whose
\* merged record breaks either is rejected.
C4_StoredDurationAndTitleValid ==
    \A i \in 1..Len(activities) :
        /\ activities[i].duration > 0
        /\ activities[i].duration <= 8 * 600
        /\ \E k \in 1..Len(activities[i].title) :
              activities[i].title[k] \notin Whitespace

\* C5: whenever edit_activity returns an error, the store is the store as it
\* was at the call: no field of any activity has changed.
C5_FailedEditChangesNothing ==
    (call.op = "edit" /\ result.kind # "Ok") => activities = prev

\* C5 witness: an edit that supplied a new location together with a start
\* time that conflicts was refused.
C5_Witness ==
    /\ Returned("edit", "TimeConflict")
    /\ call.location.some
    /\ \E i \in Target : prev[i].location # call.location

\* The checks of add in the order specified, and whether the last add call
\* fails each of them.
AddChecks ==
    <<"InvalidDay", "InvalidTime", "UnknownCategory", "InvalidDuration",
      "EmptyTitle", "TimeConflict">>

AddFails(kind) ==
    CASE kind = "InvalidDay" ->
            call.day.val \notin {ValidDays[i] : i \in 1..Len(ValidDays)}
      [] kind = "InvalidTime" -> ~ParseTime(call.start_time.val).some
      [] kind = "UnknownCategory" -> call.category.val \notin DOMAIN categories
      [] kind = "InvalidDuration" ->
            ~(call.duration.val > 0 /\ call.duration.val <= 8 * 600)
      [] kind = "EmptyTitle" ->
            \A k \in 1..Len(call.title.val) : call.title.val[k] \in Whitespace
      [] kind = "TimeConflict" ->
            /\ ParseTime(call.start_time.val).some
            /\ \E i \in 1..Len(prev) :
                  Overlaps(prev[i], call.day.val, call.start_time.val,
                           call.duration.val)

FailedChecks == {k \in 1..Len(AddChecks) : AddFails(AddChecks[k])}

FirstFailure ==
    IF FailedChecks = {} THEN "Ok"
    ELSE AddChecks[CHOOSE k \in FailedChecks : \A j \in FailedChecks : k <= j]

\* C8: add_activity checks day, start time, category, duration, title and
\* conflict in this order and returns the error of the first check that
\* fails; on any failure the store is unchanged.
C8_AddReportsFirstFailure ==
    call.op = "add" =>
        /\ result.kind = FirstFailure
        /\ result.kind # "Ok" => activities = prev

\* C8 witness: an add with a bad duration and a blank title, made on a store
\* that holds an activity, returned InvalidDuration.
C8_Witness ==
    /\ Returned("add", "InvalidDuration")
    /\ {4, 5} \subseteq FailedChecks
    /\ Len(prev) >= 1

\* C8, the other case reached: a bad day with an unknown category.
C8_WitnessDay == Returned("add", "InvalidDay") /\ {1, 3} \subseteq FailedChecks

\* C9: a successful edit changes exactly the supplied fields of the activity
\* it names: every field not supplied, the id, the creation time, the position
\* and every other activity are as they were at the call.
C9_EditChangesSuppliedOnly ==
    Returned("edit", "Ok") =>
        /\ Len(activities) = Len(prev)
        /\ \A i \in 1..Len(prev) :
            IF prev[i].id # call.id THEN activities[i] = prev[i]
            ELSE /\ activities[i].id = prev[i].id
                 /\ activities[i].created_at = prev[i].created_at
                 /\ \A n \in {"title", "category", "day", "start_time",
                              "duration"} :
                       activities[i][n] =
                           IF call[n].some THEN call[n].val ELSE prev[i][n]
                 /\ \A n \in {"location", "description"} :
                       activities[i][n] =
                           IF call[n].some THEN call[n] ELSE prev[i][n]

\* C9 witness: an edit supplied a new title and no location for an activity
\* that has a location, with another activity in the store.
C9_Witness ==
    /\ Returned("edit", "Ok")
    /\ Len(prev) = 2
    /\ call.title.some /\ ~call.location.some
    /\ \E i \in Target :
          prev[i].location.some /\ prev[i].title # call.title.val

----------------------------------------------------------------------------
\* The queries

Permutation(r, v) ==
    /\ Len(r) = Len(v)
    /\ \E f \in [1..Len(v) -> 1..Len(v)] :
          /\ \A i, j \in 1..Len(v) : i # j => f[i] # f[j]
          /\ \A i \in 1..Len(v) : r[i] = v[f[i]]

QueriedDays == {ValidDays[i] : i \in 1..Len(ValidDays)} \cup {"Monday"}

\* C11: for every day, get_activities_by_day(day) returns exactly the stored
\* activities of that day, each start time (in minutes since midnight) no
\* later than the next one's.
C11_ByDayChronological ==
    \A day \in QueriedDays :
        LET r == GetActivitiesByDay(day) IN
        /\ Permutation(r, OnDay(activities, day))
        /\ \A k \in 1..(Len(r) - 1) :
              StartMinutes(r[k].start_time) <= StartMinutes(r[k + 1].start_time)

\* C12: get_all_activities() returns a permutation of the whole store in
\* which each result has a smaller day index than the next, or the same day
\* and a start time (in minutes since midnight) no later than the next one's;
\* an activity on a day outside the seven comes after all those on the seven.
C12_AllSortedByDayThenStart ==
    LET r == GetAllActivities IN
    /\ Permutation(r, activities)
    /\ \A k \in 1..(Len(r) - 1) :
          \/ DayIndex(r[k].day) < DayIndex(r[k + 1].day)
          \/ /\ r[k].day = r[k + 1].day
             /\ StartMinutes(r[k].start_time)
                    <= StartMinutes(r[k + 1].start_time)
    /\ \A i, j \in 1..Len(r) :
          ValidateDay(r[i].day) /\ ~ValidateDay(r[j].day) => i < j

\* The sum of the values of a map.
RECURSIVE SumOf(_)
SumOf(map) ==
    IF DOMAIN map = {} THEN 0
    ELSE LET key == CHOOSE k \in DOMAIN map : TRUE IN
         map[key] + SumOf([k \in DOMAIN map \ {key} |-> map[k]])

\* C13: the statistics of any store: the durations by category and the
\* durations by day each add up to the total time, the count is the number of
\* stored activities, and the keys are exactly the categories and the days
\* that occur in the store.
C13_StatsAddUp ==
    call.op = "stats" =>
        /\ SumOf(result.val.by_category) = result.val.total_time
        /\ SumOf(result.val.by_day) = result.val.total_time
        /\ result.val.activity_count = Len(activities)
        /\ DOMAIN result.val.by_category
              = {activities[i].category : i \in 1..Len(activities)}
        /\ DOMAIN result.val.by_day
              = {activities[i].day : i \in 1..Len(activities)}

\* C13 witness: statistics of a store with two activities of one category on
\* different days, with durations of 30 and 59.7 minutes.
C13_Witness ==
    /\ call.op = "stats"
    /\ Len(activities) = 2
    /\ activities[1].category = activities[2].category
    /\ activities[1].day # activities[2].day
    /\ activities[1].duration # activities[2].duration
    /\ result.val.total_time = 897

----------------------------------------------------------------------------
\* Persistence

Mutating == call.op \in {"add", "edit", "remove"}

\* The change the last call asked for is in the store.
MutationKept ==
    CASE call.op = "add" ->
            /\ Len(activities) = Len(prev) + 1
            /\ SubSeq(activities, 1, Len(prev)) = prev
            /\ activities[Len(activities)].id = result.val
            /\ activities[Len(activities)].title = call.title.val
            /\ activities[Len(activities)].start_time = call.start_time.val
      [] call.op = "edit" ->
            /\ Len(activities) = Len(prev)
            /\ \A i \in Target :
                  \A n \in Supplied : activities[i][n] = call[n].val
      [] call.op = "remove" ->
            /\ Len(activities) = Len(prev) - 1
            /\ \A i \in 1..Len(activities) : activities[i].id # call.id

\* C14: when the save of an add, an edit or a remove fails, the operation
\* still returns success and its change stays in the store.
C14_SaveFailureKeepsMutation ==
    (Mutating /\ saveResult = "Err") => (result.kind = "Ok" /\ MutationKept)

\* C14 witness: a remove whose save failed; the activity is gone from the
\* store and still in the file.
C14_Witness ==
    /\ call.op = "remove"
    /\ saveResult = "Err"
    /\ disk.exists
    /\ Len(disk.activities) > Len(activities)

\* C14, the other operations reached: an edit of the title and an add whose
\* save failed.
C14_WitnessEdit ==
    call.op = "edit" /\ saveResult = "Err" /\ "title" \in Supplied

C14_WitnessAdd == call.op = "add" /\ saveResult = "Err"

\* C15: every add, edit or remove that succeeds saves, and when the save
\* succeeds the file is the document of the store and the registry as they
\* are right after the operation; one that fails does not save and leaves
\* the file as it was.
C15_SaveFollowsSuccess ==
    [][call'.op \in {"add", "edit", "remove"} =>
          /\ result'.kind = "Ok" =>
                /\ saveResult' # "NotCalled"
                /\ saveResult' = "Ok" => disk' = Document(activities', categories')
          /\ result'.kind # "Ok" => (saveResult' = "NotCalled" /\ disk' = disk)]_vars

\* C15 witness: an edit changed a stored title and was saved.
C15_Witness ==
    /\ Returned("edit", "Ok")
    /\ saveResult = "Ok"
    /\ activities # prev
    /\ disk = Document(activities, categories)

\* C15, the failing case reached: an edit refused while the file holds less
\* than the store.
C15_WitnessFailed ==
    /\ call.op = "edit"
    /\ result.kind = "InvalidDay"
    /\ disk # Document(activities, categories)

\* C16: saving the state and constructing a new engine over the saved
\* document gives the same activities, in the same order with the same
\* fields, and the same registry.
C16_SaveLoadRoundTrip ==
    LET organizer == New(Document(activities, categories)) IN
    /\ organizer.ok
    /\ organizer.activities = activities
    /\ organizer.categories = categories

\* C17: when the load fails as the engine is constructed, the engine has
\* no activities and exactly the seven default categories.
C17_FailedLoadStartsClean ==
    (call.op = "new" /\ result.kind = "LoadFailed") =>
        (activities = <<>> /\ categories = DefaultCategories)

\* C17 witness: a restart over a document the engine itself wrote, whose
\* first activity can be read and whose second cannot.
C17_Witness ==
    /\ call.op = "new"
    /\ result.kind = "LoadFailed"
    /\ disk.exists
    /\ Len(disk.activities) = 2
    /\ ~disk.activities[1].duration.null

\* C17, the other cases reached: no file, and a truncated file.
C17_WitnessMissing ==
    call.op = "new" /\ result.kind = "LoadFailed" /\ ~disk.exists

C17_WitnessTruncated ==
    call.op = "new" /\ result.kind = "LoadFailed" /\ disk = TruncatedFile

----------------------------------------------------------------------------
\* Categories

\* The value of field n in the record the last add or edit validated: the
\* argument, or for an edit that left it out, the stored value.
Merged(n) ==
    IF call[n].some THEN call[n].val
    ELSE prev[CHOOSE i \in Target : TRUE][n]

\* The last call was an add, or an edit of a stored activity, whose
\* (merged) category is not in the registry.
UnregisteredCategory ==
    /\ call.op \in {"add", "edit"}
    /\ call.op = "edit" => Target # {}
    /\ Merged("category") \notin DOMAIN categories

C18_WitnessAdd == Returned("add", "UnknownCategory") /\ UnregisteredCategory

----------------------------------------------------------------------------
\* Interval ends and start-time strings

\* C19: every interval end the conflict detector computes, for a stored
\* activity and for the candidate of an add, is the start plus the duration
\* in minutes rounded to the nearest minute, half up; so an add at 09:59 on
\* the day of a stored activity of 59.7 minutes from 09:00 is refused with
\* TimeConflict.
C19_EndsRounded ==
    /\ \A i \in 1..Len(activities) :
          EndMinutes(activities[i].start_time, activities[i].duration)
            = OccupiedEnd(activities[i].start_time, activities[i].duration)
    /\ AddArgsValid =>
          EndMinutes(call.start_time.val, call.duration.val)
            = OccupiedEnd(call.start_time.val, call.duration.val)
    /\ (/\ AddArgsValid
        /\ call.start_time.val = T0959
        /\ \E i \in 1..Len(prev) :
              /\ prev[i].day = call.day.val
              /\ prev[i].start_time = T0900
              /\ prev[i].duration = 597)
          => result.kind = "TimeConflict"

\* A start time written HH:MM: five characters, a two-digit hour from 00 to
\* 23, a colon, a two-digit minute from 00 to 59.
IsHHMM(time) ==
    /\ Len(time) = 5
    /\ {time[1], time[2], time[4], time[5]} \subseteq Digits
    /\ time[3] = ":"
    /\ 10 * DigitVal(time[1]) + DigitVal(time[2]) <= 23
    /\ 10 * DigitVal(time[4]) + DigitVal(time[5]) <= 59

\* C20: every stored start time is written HH:MM; an add or an edit (of a
\* stored activity, on a valid day) that supplies a start time written
\* otherwise fails with InvalidTime and leaves the store unchanged.
C20_OnlyHHMMAccepted ==
    /\ \A i \in 1..Len(activities) : IsHHMM(activities[i].start_time)
    /\ (/\ call.op \in {"add", "edit"}
        /\ call.op = "edit" => Target # {}
        /\ call.start_time.some
        /\ ~IsHHMM(call.start_time.val)
        /\ ValidateDay(Merged("day")))
          => (result.kind = "InvalidTime" /\ activities = prev)

----------------------------------------------------------------------------
\* Half-hour slots

\* The minutes since midnight a slot string reads as.
SlotMinutes(slot) == ParseTime(slot).val[1] * 60 + ParseTime(slot).val[2]

\* C21: every call of generate_time_slots returns 34 slots written HH:MM,
\* the first 06:00, the last 22:30, each 30 minutes after the one before it
\* (which fixes the sequence, so every call returns the same one).
C21_ThirtyFourHalfHourSlots ==
    call.op = "slots" =>
        LET slots == result.val IN
        /\ Len(slots) = 34
        /\ \A k \in 1..Len(slots) : IsHHMM(slots[k])
        /\ slots[1] = Str5("0", "6", ":", "0", "0")
        /\ slots[Len(slots)] = Str5("2", "2", ":", "3", "0")
        /\ \A k \in 1..(Len(slots) - 1) :
              SlotMinutes(slots[k + 1]) = SlotMinutes(slots[k]) + 30

\* C21 witness: the slots were generated on a store that holds two
\* activities.
C21_Witness ==
    /\ call.op = "slots"
    /\ Len(activities) = 2
    /\ Len(result.val) > 0

----------------------------------------------------------------------------
\* The conflict reported

\* The activities stored at the call, other than the one an edit names, that
\* overlap the candidate of the last add or edit on its day, by the occupied
\* intervals as specified.
CandidateOverlapped ==
    {i \in 1..Len(prev) :
        /\ call.op = "edit" => prev[i].id # call.id
        /\ prev[i].day = Merged("day")
        /\ IntervalsOverlap(prev[i].start_time, prev[i].duration,
                            Merged("start_time"), Merged("duration"))}

\* C22: the conflict an add or an edit reports is the first activity in
\* store order, the edited one left out, that overlaps the candidate.
C22_FirstConflictInStoreOrder ==
    (call.op \in {"add", "edit"} /\ result.kind = "TimeConflict") =>
        /\ CandidateOverlapped # {}
        /\ \A i \in CandidateOverlapped :
              (\A j \in CandidateOverlapped : i <= j) => result.val = prev[i].id

----------------------------------------------------------------------------
\* Removal

IdsOf(acts) == {acts[i].id : i \in 1..Len(acts)}

\* acts with the activities of the given id left out, the rest in order.
WithoutId(acts, id) ==
    LET Other(a) == a.id # id IN SelectSeq(acts, Other)

\* The step is an add for the day, start time and duration of the activity
\* that the remove just before it deleted.
AddAgainAfterRemove ==
    /\ Returned("remove", "Ok")
    /\ call'.op = "add"
    /\ \E i \in Target :
          /\ call'.day.val = prev[i].day
          /\ call'.start_time.val = prev[i].start_time
          /\ call'.duration.val = prev[i].duration

C23_WitnessAddAgain ==
    /\ Returned("add", "Ok")
    /\ prev = <<>>
    /\ IdsOf(activities) = {2}

----------------------------------------------------------------------------
\* Insertion order

\* add_activity of request r on a store acts returns Ok.
AcceptedOn(acts, r) ==
    AddValidationOn(acts, r.title, r.category, r.day, r.start_time,
                    r.duration).kind = "Ok"

\* The store acts after add_activity of request r was accepted on it.
WithAdded(acts, r) ==
    Append(acts, NewActivity(r.title, r.category, r.day, r.start_time,
                             r.duration, r.location, r.description))

\* The request of the last add.
LastAdd ==
    AddReq(call.title.val, call.category.val, call.day.val,
           call.start_time.val, call.duration.val, call.location,
           call.description)

\* C24: for a valid A just added to any store and every valid B: A then B
\* leaves both stored (A was accepted, and B is accepted on the store as it
\* now is) exactly when B then A would (B accepted on the store as it was at
\* the call, then A accepted after B).
C24_OrderIndependent ==
    AddArgsValid =>
        \A b \in SchedAdds :
            (result.kind = "Ok" /\ AcceptedOn(activities, b))
              <=> (/\ AcceptedOn(prev, b)
                   /\ AcceptedOn(WithAdded(prev, b), LastAdd))

\* C24 witness: A was added to a store holding an activity; some B is stored
\* with A in either order, and another B in neither, though each alone would
\* be accepted.
C24_Witness ==
    /\ Returned("add", "Ok")
    /\ prev # <<>>
    /\ \E b \in SchedAdds :
          AcceptedOn(activities, b) /\ AcceptedOn(WithAdded(prev, b), LastAdd)
    /\ \E b \in SchedAdds :
          /\ AcceptedOn(prev, b)
          /\ ~AcceptedOn(activities, b)
          /\ ~AcceptedOn(WithAdded(prev, b), LastAdd)

----------------------------------------------------------------------------
\* Midnight

MinutesPerDay == 24 * 60

\* C25: an add whose arguments are valid is accepted when no activity
\* stored on its day overlaps it on the minute axis running on past 1440,
\* and refused with TimeConflict, naming such an activity, when one does,
\* wherever the interval ends; so an activity ending after midnight is
\* accepted and conflicts with nothing stored on another day.
C25_NoWrapPerDay ==
    AddArgsValid =>
        /\ AddOverlapped = {} => (result.kind = "Ok" /\ activities # prev)
        /\ AddOverlapped # {} =>
              /\ result.kind = "TimeConflict"
              /\ \E i \in AddOverlapped : prev[i].id = result.val
        /\ result.kind = "TimeConflict" =>
              \A i \in 1..Len(prev) :
                  prev[i].id = result.val => prev[i].day = call.day.val

\* C25 witness: two hours from 23:00 were added to a store holding, on the
\* next day, an activity at 00:00.
C25_Witness ==
    /\ Returned("add", "Ok")
    /\ call.day.val = "Segunda"
    /\ call.start_time.val = T2300
    /\ call.duration.val = 2 * 600
    /\ OccupiedEnd(call.start_time.val, call.duration.val) > MinutesPerDay
    /\ \E i \in 1..Len(prev) :
          prev[i].day = "Terça" /\ prev[i].start_time = T0000

\* C25, the other cases reached: 00:00 added on the day of an activity that
\* runs two hours from 23:00, and 23:30 refused on that day.
C25_WitnessSameDay ==
    /\ Returned("add", "Ok")
    /\ call.start_time.val = T0000
    /\ \E i \in 1..Len(prev) :
          /\ prev[i].day = call.day.val
          /\ prev[i].start_time = T2300
          /\ prev[i].duration = 2 * 600

C25_WitnessConflict ==
    /\ Returned("add", "TimeConflict")
    /\ call.start_time.val = T2330
    /\ call.duration.val = 2 * 600
    /\ \E i \in AddOverlapped :
          /\ prev[i].start_time = T2300
          /\ OccupiedEnd(prev[i].start_time, prev[i].duration) > MinutesPerDay

====
